---- MODULE Spec2Model ----
(***************************************************************************)
(* Order management (write side), outbox publisher, Kafka event bus,      *)
(* consumer and order read-model projection of vdntruong/dddcqrs.          *)
(*                                                                         *)
(* Every SQL statement, every produce/ack and every loop iteration of the  *)
(* consumer is one step: the code runs them as separate auto-commit        *)
(* statements, so a failed write or a crash can fall between any two.      *)
(***************************************************************************)
EXTENDS Integers, Sequences, FiniteSets, TLC

\* ------------------------------------------------------------------ bounds
MaxOrders == 1
MaxOutbox == 3
NumPartitions == 2
\* GetUnprocessedEvents: LIMIT 100, scaled down so that a batch can be full
BatchLimit == 2
\* most line items an order is given (AddOrderItem is not offered beyond it)
MaxItems == 2
\* most times an acknowledged entry is left unprocessed and so published again
MaxRedeliver == 1
\* most transient failures (failed statement, failed commit, restart, expiry)
\* the reporting service meets
MaxFaults == 1
\* most calls of the projection handler made one by one (ProjectionSpec)
MaxCalls == 3

OrderIDs == 1..MaxOrders
Partitions == 1..NumPartitions

\* command inputs: line items (product_id, quantity, price amount and currency)
ItemChoices ==
    { [productID |-> 1, quantity |-> 2, price |-> 10, currency |-> "USD"],
      [productID |-> 2, quantity |-> 1, price |-> 5, currency |-> "USD"] }
\* a line item priced in another currency
EuroItem == [productID |-> 2, quantity |-> 1, price |-> 5, currency |-> "EUR"]
ProductIDs == { it.productID : it \in ItemChoices }
ItemLists == { <<>> } \cup { <<it>> : it \in ItemChoices }

NoOrder == [status |-> "none"]
NoRow == [status |-> "none"]
NoEvent == [type |-> "none"]

VARIABLES
    orders,        \* table orders: id -> row (status, total_amount) or NoRow
    order_items,   \* table order_items: id -> rows in insertion order
    events,        \* table events (event store): set of rows
    outbox,        \* table outbox_events in created_at order
    cmd,           \* the command request being executed by the write service
    other,         \* a second request in flight, waiting for the scheduler
    pub,           \* the EventPublisher goroutine
    topic,         \* Kafka topic "orders": partition -> log of messages
    delivery_failed, \* outbox ids whose latest Publish returned an error (history)
    position,      \* consumer's fetch position per partition
    committed,     \* consumer group's committed offset per partition
    outcome,       \* <<partition, offset>> -> result of the handler calls (history)
    read_models,   \* table order_read_models: id -> record or NoOrder
    cache,         \* redis "order:<id>": id -> record or NoOrder
    faults,        \* transient failures of the reporting service so far
    calls,         \* the calls of the projection handler made one by one (history)
    reporting      \* the reporting process: main, the Subscribe goroutine, its consumer

writeVars == <<orders, order_items, events, outbox, cmd, other>>
busVars == <<pub, topic, delivery_failed>>
readVars == <<position, committed, outcome, read_models, cache, faults, calls>>
vars == <<orders, order_items, events, outbox, cmd, other, pub, topic, delivery_failed,
          position, committed, outcome, read_models, cache, faults, calls,
          reporting>>

\* ------------------------------------------------------- Order aggregate
RECURSIVE SumItems(_)
SumItems(items) ==
    IF items = <<>> THEN 0
    ELSE Head(items).price * Head(items).quantity + SumItems(Tail(items))

recalculateTotal(o) == [o EXCEPT !.total = SumItems(o.items)]

NewOrder(id) == [id |-> id, status |-> "draft", items |-> <<>>, total |-> 0]

Ok(o) == [ok |-> TRUE, order |-> o]
Err(o) == [ok |-> FALSE, order |-> o]

AddItem(o, item) ==
    IF o.status # "draft" THEN Err(o)
    ELSE IF item.quantity <= 0 THEN Err(o)
    ELSE Ok(recalculateTotal([o EXCEPT !.items = Append(o.items, item)]))

\* index of the first item with the product, 0 when there is none
FirstIndex(items, productID) ==
    IF \E i \in 1..Len(items) : items[i].productID = productID
    THEN CHOOSE i \in 1..Len(items) :
            /\ items[i].productID = productID
            /\ \A j \in 1..(i-1) : items[j].productID # productID
    ELSE 0

RemoveAt(items, i) ==
    [j \in 1..(Len(items)-1) |-> IF j < i THEN items[j] ELSE items[j+1]]

RemoveItem(o, productID) ==
    IF o.status # "draft" THEN Err(o)
    ELSE IF FirstIndex(o.items, productID) = 0 THEN Err(o)
    ELSE Ok(recalculateTotal(
            [o EXCEPT !.items = RemoveAt(o.items, FirstIndex(o.items, productID))]))

Confirm(o) ==
    IF o.status # "draft" THEN Err(o)
    ELSE IF Len(o.items) = 0 THEN Err(o)
    ELSE Ok([o EXCEPT !.status = "confirmed"])

Cancel(o) ==
    IF o.status \in {"shipped", "delivered"} THEN Err(o)
    ELSE Ok([o EXCEPT !.status = "cancelled"])

Ship(o) ==
    IF o.status # "confirmed" THEN Err(o)
    ELSE Ok([o EXCEPT !.status = "shipped"])

Deliver(o) ==
    IF o.status # "shipped" THEN Err(o)
    ELSE Ok([o EXCEPT !.status = "delivered"])

\* OrderStatus.CanTransitionTo: the transition table of the value object
CanTransitionTo(s, newStatus) ==
    CASE s = "draft" -> newStatus \in {"confirmed", "cancelled"}
      [] s = "confirmed" -> newStatus \in {"shipped", "cancelled"}
      [] s = "shipped" -> newStatus = "delivered"
      [] s \in {"delivered", "cancelled"} -> FALSE
      [] OTHER -> FALSE

\* ------------------------------------------------------ order repository
\* ORDER BY product_id of findOrderItems (insertion sort, stable)
RECURSIVE InsertSorted(_, _)
InsertSorted(sorted, item) ==
    IF sorted = <<>> THEN <<item>>
    ELSE IF item.productID < Head(sorted).productID THEN <<item>> \o sorted
    ELSE <<Head(sorted)>> \o InsertSorted(Tail(sorted), item)

RECURSIVE findOrderItems(_)
findOrderItems(rows) ==
    IF rows = <<>> THEN <<>>
    ELSE InsertSorted(findOrderItems(SubSeq(rows, 1, Len(rows)-1)), rows[Len(rows)])

\* FindByID: the orders row joined with its order_items rows
FindByID(id) ==
    IF orders[id] = NoRow THEN Err(NoOrder)
    ELSE Ok([id |-> id, status |-> orders[id].status,
             items |-> findOrderItems(order_items[id]),
             total |-> orders[id].total])

\* ------------------------------------------------------------ the events
\* occurred_at (time.Now()) is a logical time: events are created one at a
\* time, so the number of outbox rows at creation orders them.
Now == Len(outbox) + 1

NewOrderCreatedEvent(o) ==
    [type |-> "OrderCreated", aggregateID |-> o.id, occurredAt |-> Now,
     items |-> o.items, total |-> o.total, item |-> NoOrder]
NewOrderConfirmedEvent(o) ==
    [type |-> "OrderConfirmed", aggregateID |-> o.id, occurredAt |-> Now,
     items |-> <<>>, total |-> 0, item |-> NoOrder]
NewOrderCancelledEvent(o) ==
    [type |-> "OrderCancelled", aggregateID |-> o.id, occurredAt |-> Now,
     items |-> <<>>, total |-> 0, item |-> NoOrder]
NewOrderItemAddedEvent(o, item) ==
    [type |-> "OrderItemAdded", aggregateID |-> o.id, occurredAt |-> Now,
     items |-> <<>>, total |-> 0, item |-> item]
NewOrderItemRemovedEvent(o, productID) ==
    [type |-> "OrderItemRemoved", aggregateID |-> o.id, occurredAt |-> Now,
     items |-> <<>>, total |-> 0, item |-> [productID |-> productID]]

\* ------------------------------------------------------- command service
Idle(result) ==
    [pc |-> "idle", op |-> "none", order |-> NoOrder, arg |-> NoOrder,
     k |-> 0, result |-> result]

Running(op, o, arg) ==
    [pc |-> "save_row", op |-> op, order |-> o, arg |-> arg, k |-> 0,
     result |-> "none"]

FreshIDs == { id \in OrderIDs : orders[id] = NoRow }

RECURSIVE AddItems(_, _)
AddItems(r, items) ==
    IF items = <<>> \/ ~r.ok THEN r
    ELSE AddItems(AddItem(r.order, Head(items)), Tail(items))

\* CreateOrderCommand.Validate: at least one item is required
Validate(items) == Len(items) > 0

\* CreateOrder up to the call of OrderRepo.Save
CreateOrder(items) ==
    /\ cmd.pc = "idle"
    /\ Len(outbox) < MaxOutbox
    /\ FreshIDs # {}
    /\ LET id == CHOOSE i \in FreshIDs : \A j \in FreshIDs : i <= j
           r == AddItems(Ok(NewOrder(id)), items)
       IN  cmd' = IF ~Validate(items) THEN Idle("invalid")
                  ELSE IF ~r.ok THEN Idle("domain_error")
                  ELSE Running("CreateOrder", r.order, NoOrder)
    /\ UNCHANGED <<reporting, orders, order_items, events, outbox, other, busVars, readVars>>

\* the domain call of ConfirmOrder, CancelOrder, AddOrderItem, RemoveOrderItem
Transition(op, o, arg) ==
    CASE op = "ConfirmOrder" -> Confirm(o)
      [] op = "CancelOrder" -> Cancel(o)
      [] op = "AddOrderItem" -> AddItem(o, arg)
      [] op = "RemoveOrderItem" -> RemoveItem(o, arg.productID)

\* a variant of the service that refuses a command while an outbox entry
\* waits for its publication
BeginWhenPublished(op, id, arg) ==
    /\ cmd.pc = "idle"
    /\ Len(outbox) < MaxOutbox
    /\ LET found == FindByID(id)
           r == Transition(op, found.order, arg)
       IN  cmd' = IF \E i \in 1..Len(outbox) : ~outbox[i].processed
                  THEN Idle("storage_error")
                  ELSE IF ~found.ok THEN Idle("not_found")
                  ELSE IF ~r.ok THEN Idle("domain_error")
                  ELSE Running(op, r.order, arg)
    /\ UNCHANGED <<reporting, orders, order_items, events, outbox, other, busVars, readVars>>

\* a command on an existing order up to the call of OrderRepo.Update
Begin(op, id, arg) ==
    /\ cmd.pc = "idle"
    /\ Len(outbox) < MaxOutbox
    /\ LET found == FindByID(id)
           r == Transition(op, found.order, arg)
       IN  cmd' = IF ~found.ok THEN Idle("not_found")
                  ELSE IF ~r.ok THEN Idle("domain_error")
                  ELSE Running(op, r.order, arg)
    /\ UNCHANGED <<reporting, orders, order_items, events, outbox, other, busVars, readVars>>

ConfirmOrder(id) == Begin("ConfirmOrder", id, NoOrder)
CancelOrder(id) == Begin("CancelOrder", id, NoOrder)
AddOrderItem(id, item) ==
    /\ Len(order_items[id]) < MaxItems
    /\ Begin("AddOrderItem", id, item)
RemoveOrderItem(id, productID) ==
    Begin("RemoveOrderItem", id, [productID |-> productID])

\* UpdateOrderHandler.HandleHTTP up to the call of OrderRepo.Update: the
\* order is loaded, its items are cleared and the items of the request are
\* added; the command is not validated and no event is created
UpdateOrder(id, items) ==
    /\ cmd.pc = "idle"
    /\ LET found == FindByID(id)
           r == AddItems(Ok([found.order EXCEPT !.items = <<>>]), items)
       IN  cmd' = IF ~found.ok THEN Idle("not_found")
                  ELSE IF ~r.ok THEN Idle("domain_error")
                  ELSE Running("UpdateOrder", r.order, NoOrder)
    /\ UNCHANGED <<reporting, orders, order_items, events, outbox, other, busVars, readVars>>

\* Save: INSERT INTO orders ... ON CONFLICT (id) DO UPDATE
SaveRow ==
    /\ cmd.pc = "save_row"
    /\ orders' = [orders EXCEPT ![cmd.order.id] =
                    [status |-> cmd.order.status, total |-> cmd.order.total]]
    /\ cmd' = [cmd EXCEPT !.pc = "delete_items"]
    /\ UNCHANGED <<reporting, order_items, events, outbox, other, busVars, readVars>>

AfterItems == IF cmd.op = "CreateOrder" THEN "event_store" ELSE "outbox"

\* the command after the last statement of saveOrderItems: the service goes
\* on to the event store or the outbox, the update handler answers 200
AfterSave(c) == IF c.op = "UpdateOrder" THEN Idle("ok") ELSE [c EXCEPT !.pc = AfterItems]

\* saveOrderItems: DELETE FROM order_items WHERE order_id = $1
DeleteItems ==
    /\ cmd.pc = "delete_items"
    /\ order_items' = [order_items EXCEPT ![cmd.order.id] = <<>>]
    /\ cmd' = IF Len(cmd.order.items) = 0 THEN AfterSave([cmd EXCEPT !.k = 1])
              ELSE [cmd EXCEPT !.pc = "insert_items", !.k = 1]
    /\ UNCHANGED <<reporting, orders, events, outbox, other, busVars, readVars>>

\* saveOrderItems: one INSERT INTO order_items of the loop
InsertItem ==
    /\ cmd.pc = "insert_items"
    /\ order_items' = [order_items EXCEPT ![cmd.order.id] =
                          Append(@, cmd.order.items[cmd.k])]
    /\ cmd' = IF cmd.k = Len(cmd.order.items) THEN AfterSave([cmd EXCEPT !.k = cmd.k + 1])
              ELSE [cmd EXCEPT !.pc = "insert_items", !.k = cmd.k + 1]
    /\ UNCHANGED <<reporting, orders, events, outbox, other, busVars, readVars>>

\* the event a command hands to the event store and the outbox
EventOf(c) ==
    CASE c.op = "CreateOrder" -> NewOrderCreatedEvent(c.order)
      [] c.op = "ConfirmOrder" -> NewOrderConfirmedEvent(c.order)
      [] c.op = "CancelOrder" -> NewOrderCancelledEvent(c.order)
      [] c.op = "AddOrderItem" -> NewOrderItemAddedEvent(c.order, c.arg)
      [] c.op = "RemoveOrderItem" -> NewOrderItemRemovedEvent(c.order, c.arg.productID)

\* EventStore.SaveEvents(id, [event], 0): one transaction, UNIQUE(aggregate_id, version)
SaveEvents ==
    /\ cmd.pc = "event_store"
    /\ ~\E row \in events : row.aggregateID = cmd.order.id /\ row.version = 1
    /\ events' = events \cup
          { [aggregateID |-> cmd.order.id, type |-> EventOf(cmd).type, version |-> 1] }
    /\ cmd' = [cmd EXCEPT !.pc = "outbox"]
    /\ UNCHANGED <<reporting, orders, order_items, outbox, other, busVars, readVars>>

\* Outbox.SaveEvent: INSERT INTO outbox_events, then the command returns nil
SaveEvent ==
    /\ cmd.pc = "outbox"
    /\ outbox' = Append(outbox,
          [id |-> Len(outbox) + 1, eventType |-> EventOf(cmd).type,
           eventData |-> EventOf(cmd), createdAt |-> Len(outbox) + 1,
           processed |-> FALSE])
    /\ cmd' = Idle("ok")
    /\ UNCHANGED <<reporting, orders, order_items, events, other, busVars, readVars>>

\* a statement of the command returns an error, or the process dies before it:
\* the command ends and what was written stays written (no transaction)
CommandFails ==
    /\ cmd.pc # "idle"
    /\ cmd' = Idle("storage_error")
    /\ UNCHANGED <<reporting, orders, order_items, events, outbox, other, busVars, readVars>>


\* ----------------------------------------------------- outbox repository
\* a faulty variant of the query: no WHERE clause, every row is returned
SelectAll(rows) == rows

RECURSIVE SelectUnprocessed(_)
SelectUnprocessed(rows) ==
    IF rows = <<>> THEN <<>>
    ELSE IF Head(rows).processed THEN SelectUnprocessed(Tail(rows))
    ELSE <<Head(rows)>> \o SelectUnprocessed(Tail(rows))

Limit(rows, n) == SubSeq(rows, 1, IF Len(rows) < n THEN Len(rows) ELSE n)

RECURSIVE Reverse(_)
Reverse(rows) ==
    IF rows = <<>> THEN <<>> ELSE Reverse(Tail(rows)) \o <<Head(rows)>>

\* a faulty variant of the query: ORDER BY created_at DESC
GetUnprocessedNewestFirst == Limit(Reverse(SelectUnprocessed(outbox)), BatchLimit)

\* SELECT ... WHERE processed = false ORDER BY created_at ASC LIMIT 100
GetUnprocessedEvents == Limit(SelectUnprocessed(outbox), BatchLimit)

\* a faulty variant of the update: no WHERE clause, every row is marked
MarkAsProcessedAll(rows, id) ==
    [i \in 1..Len(rows) |-> [rows[i] EXCEPT !.processed = TRUE]]

\* a variant that sweeps the delivered entry out of the table
DeleteProcessed(rows, id) == SelectSeq(rows, LAMBDA row : row.id # id)

\* UPDATE outbox_events SET processed = true WHERE id = $1
MarkAsProcessed(rows, id) ==
    [i \in 1..Len(rows) |->
        IF rows[i].id = id THEN [rows[i] EXCEPT !.processed = TRUE] ELSE rows[i]]

\* -------------------------------------------------------- Kafka event bus
EventTypes ==
    {"OrderCreated", "OrderConfirmed", "OrderShipped", "OrderDelivered",
     "OrderCancelled", "OrderItemAdded", "OrderItemRemoved"}

\* EventPublisher.parseEvent: the switch over event_type
parseEvent(entry) ==
    IF entry.eventType \in EventTypes THEN [ok |-> TRUE, event |-> entry.eventData]
    ELSE [ok |-> FALSE, event |-> NoEvent]

\* the Key of a message: the set of the key it carries, empty when it carries none
NoKey == {}

\* the kafka.Message of Publish: Value and Headers are set, Key is not
Message(event) ==
    [key |-> NoKey, value |-> event,
     headers |-> [eventType |-> event.type, aggregateID |-> event.aggregateID]]

\* Partition: kafka.PartitionAny: the partitioner hashes the key, and places a
\* message without a key on any partition
PartitionsFor(msg) ==
    IF msg.key = NoKey THEN Partitions
    ELSE { ((k - 1) % NumPartitions) + 1 : k \in msg.key }

TotalMessages == LET RECURSIVE Sum(_)
                     Sum(ps) == IF ps = {} THEN 0
                                ELSE LET p == CHOOSE q \in ps : TRUE
                                     IN  Len(topic[p]) + Sum(ps \ {p})
                 IN  Sum(Partitions)

ProcessedIDs == { i \in 1..Len(outbox) : outbox[i].processed }

\* acknowledged messages whose entry is not marked processed
Unmarked == TotalMessages - Cardinality(ProcessedIDs)

\* --------------------------------------------------------- EventPublisher
\* a tick of ProcessEvents: processBatch fetches the unprocessed entries
ProcessBatch ==
    /\ pub.pc = "wait"
    /\ GetUnprocessedEvents # <<>>
    /\ pub' = [pc |-> "publish", batch |-> GetUnprocessedEvents]
    /\ UNCHANGED <<reporting, writeVars, topic, delivery_failed, readVars>>

\* a variant of the loop that gives up the batch at the first error (return
\* in place of continue)
AbandonBatch == [pc |-> "wait", batch |-> <<>>]

NextEntry == IF Len(pub.batch) = 1 THEN [pc |-> "wait", batch |-> <<>>]
             ELSE [pc |-> "publish", batch |-> Tail(pub.batch)]

\* processEvent: parseEvent, then Publish returns nil (delivery report without error)
PublishAck(p) ==
    /\ pub.pc = "publish"
    /\ parseEvent(Head(pub.batch)).ok
    /\ p \in PartitionsFor(Message(parseEvent(Head(pub.batch)).event))
    /\ TotalMessages < MaxOutbox + MaxRedeliver
    /\ topic' = [topic EXCEPT ![p] =
                    Append(@, Message(parseEvent(Head(pub.batch)).event))]
    /\ delivery_failed' = delivery_failed \ {Head(pub.batch).id}
    /\ pub' = [pub EXCEPT !.pc = "mark"]
    /\ UNCHANGED <<reporting, writeVars, readVars>>

\* a faulty variant of the error branch: the entry is marked processed all the
\* same (processBatch without its continue)
PublishFailsMarked ==
    /\ pub.pc = "publish"
    /\ delivery_failed' = delivery_failed \cup {Head(pub.batch).id}
    /\ outbox' = MarkAsProcessed(outbox, Head(pub.batch).id)
    /\ pub' = NextEntry
    /\ UNCHANGED <<reporting, orders, order_items, events, cmd, other, topic, readVars>>

\* processEvent returns an error (parse error, produce error, failed delivery
\* report): processBatch logs it and continues with the next entry
PublishFails ==
    /\ pub.pc = "publish"
    /\ delivery_failed' = delivery_failed \cup {Head(pub.batch).id}
    /\ pub' = NextEntry
    /\ UNCHANGED <<reporting, writeVars, topic, readVars>>

\* OutboxRepo.MarkAsProcessed returns nil
MarkProcessed ==
    /\ pub.pc = "mark"
    /\ outbox' = MarkAsProcessed(outbox, Head(pub.batch).id)
    /\ pub' = NextEntry
    /\ UNCHANGED <<reporting, orders, order_items, events, cmd, other, topic, delivery_failed, readVars>>

\* OutboxRepo.MarkAsProcessed returns an error: logged, the loop goes on
MarkFails ==
    /\ pub.pc = "mark"
    /\ Unmarked <= MaxRedeliver
    /\ pub' = NextEntry
    /\ UNCHANGED <<reporting, writeVars, topic, delivery_failed, readVars>>

\* the write service dies and is started again: ProcessEvents starts over
PublisherRestart ==
    /\ pub.pc # "wait"
    /\ pub.pc = "mark" => Unmarked <= MaxRedeliver
    /\ pub' = [pc |-> "wait", batch |-> <<>>]
    /\ UNCHANGED <<reporting, writeVars, topic, delivery_failed, readVars>>

\* ------------------------------------------------------ order read model
\* GetOrder: the redis copy when there is one, else the order_read_models row
GetOrder(id) ==
    IF cache[id] # NoOrder THEN Ok(cache[id])
    ELSE IF read_models[id] = NoOrder THEN Err(NoOrder)
    ELSE Ok(read_models[id])

\* the INSERT ... ON CONFLICT (id) DO UPDATE of the read model's CreateOrder:
\* every column but created_at is overwritten
Upsert(row, order) ==
    IF row = NoOrder THEN order ELSE [order EXCEPT !.createdAt = row.createdAt]

\* ----------------------------------------------------- projection handler
handleOrderCreated(event) ==
    Ok([id |-> event.aggregateID, status |-> "draft", total |-> event.total,
        items |-> event.items, createdAt |-> event.occurredAt,
        updatedAt |-> event.occurredAt])

\* a variant of the status handlers that stamps the record with the time of
\* the call (time.Now()) where the code takes event.OccurredAt()
handleStatusStampedNow(found, event, status) ==
    IF ~found.ok THEN found
    ELSE Ok([found.order EXCEPT !.status = status, !.updatedAt = @ + 1])

\* handleOrderConfirmed, handleOrderShipped, handleOrderDelivered, handleOrderCancelled
handleStatus(found, event, status) ==
    IF ~found.ok THEN found
    ELSE Ok([found.order EXCEPT !.status = status, !.updatedAt = event.occurredAt])

\* a variant that appends the item only when the list does not hold it yet
handleOrderItemAddedOnce(found, event) ==
    IF ~found.ok THEN found
    ELSE LET held == \E i \in 1..Len(found.order.items) :
                        found.order.items[i] = event.item
             items == IF held THEN found.order.items
                      ELSE Append(found.order.items, event.item)
         IN  Ok([found.order EXCEPT !.items = items, !.total = SumItems(items),
                                    !.updatedAt = event.occurredAt])

handleOrderItemAdded(found, event) ==
    IF ~found.ok THEN found
    ELSE LET items == Append(found.order.items, event.item)
         IN  Ok([found.order EXCEPT !.items = items, !.total = SumItems(items),
                                    !.updatedAt = event.occurredAt])

handleOrderItemRemoved(found, event) ==
    IF ~found.ok THEN found
    ELSE LET i == FirstIndex(found.order.items, event.item.productID)
             items == IF i = 0 THEN found.order.items
                      ELSE RemoveAt(found.order.items, i)
         IN  Ok([found.order EXCEPT !.items = items, !.total = SumItems(items),
                                    !.updatedAt = event.occurredAt])

\* a variant of the default branch that returns an error
SkippedAsError == Err(NoOrder)

\* the default branch of Handle: the kind is logged, nil is returned and the
\* read model is not called
Skipped == Ok(NoOrder)

\* the type switch of Handle, given what GetOrder returns for the aggregate:
\* the record the handler hands to CreateOrder / UpdateOrder, or its error
Project(found, event) ==
    CASE event.type = "OrderCreated" -> handleOrderCreated(event)
      [] event.type = "OrderConfirmed" -> handleStatus(found, event, "confirmed")
      [] event.type = "OrderShipped" -> handleStatus(found, event, "shipped")
      [] event.type = "OrderDelivered" -> handleStatus(found, event, "delivered")
      [] event.type = "OrderCancelled" -> handleStatus(found, event, "cancelled")
      [] event.type = "OrderItemAdded" -> handleOrderItemAdded(found, event)
      [] event.type = "OrderItemRemoved" -> handleOrderItemRemoved(found, event)
      [] OTHER -> Skipped

\* the row and the redis entry of an aggregate after a handler call returned r
Written(row, r) == IF r.order = NoOrder THEN row ELSE Upsert(row, r.order)
Cached(entry, r, cacheSet) ==
    IF r.order = NoOrder \/ ~cacheSet THEN entry ELSE r.order

Handle(event) == Project(GetOrder(event.aggregateID), event)

\* ------------------------------------------------- consumer (Subscribe loop)
\* ReadMessage: the next message of a partition the consumer has not fetched
HasNext(p) == position[p] < Len(topic[p])
NextMessage(p) == topic[p][position[p] + 1]

SetOutcome(p, o, r) ==
    { x \in outcome : ~(x.p = p /\ x.o = o) } \cup { [p |-> p, o |-> o, r |-> r] }

\* a handler error does not undo an earlier success of the same message
Failed(p, o) ==
    IF [p |-> p, o |-> o, r |-> "ok"] \in outcome THEN outcome
    ELSE SetOutcome(p, o, "error")

\* a variant of the error branch that hands the message to the handler all
\* the same (the branch without its continue)
ConsumeUnmarshalHandled(p) ==
    /\ HasNext(p)
    /\ faults < MaxFaults
    /\ faults' = faults + 1
    /\ position' = [position EXCEPT ![p] = @ + 1]
    /\ outcome' = Failed(p, position[p] + 1)
    /\ UNCHANGED <<reporting, writeVars, busVars, committed, read_models, cache, calls>>

\* json.Unmarshal of the message value returns an error: logged, next message
ConsumeUnmarshalFails(p) ==
    /\ HasNext(p)
    /\ faults < MaxFaults
    /\ faults' = faults + 1
    /\ position' = [position EXCEPT ![p] = @ + 1]
    /\ UNCHANGED <<reporting, writeVars, busVars, committed, outcome, read_models, cache, calls>>

\* the handler returns an error (GetOrder finds nothing, or a statement of the
\* read model fails): logged, next message. When the failing statement is the
\* write, GetOrder has already run and may have filled the cache from the row.
ConsumeHandlerFails(p, atWrite) ==
    /\ HasNext(p)
    /\ LET event == NextMessage(p).value
           id == event.aggregateID
       IN  /\ atWrite => Handle(event).ok
           /\ Handle(event).ok => faults < MaxFaults
           /\ faults' = IF Handle(event).ok THEN faults + 1 ELSE faults
           /\ cache' = IF atWrite /\ cache[id] = NoOrder /\ event.type # "OrderCreated"
                       THEN [cache EXCEPT ![id] = read_models[id]]
                       ELSE cache
    /\ position' = [position EXCEPT ![p] = @ + 1]
    /\ outcome' = Failed(p, position[p] + 1)
    /\ UNCHANGED <<reporting, writeVars, busVars, committed, read_models, calls>>

\* the handler returns nil: the row is upserted and, when redis accepts the Set,
\* cached. Then CommitMessage(msg) commits the offset after the message, or fails
\* (at most once for a message, which bounds how often it is handled again).
ConsumeHandled(p, cacheSet, commitOK) ==
    /\ HasNext(p)
    /\ commitOK \/ [p |-> p, o |-> position[p] + 1, r |-> "ok"] \notin outcome
    /\ LET event == NextMessage(p).value
           id == event.aggregateID
           r == Handle(event)
           n == (IF cacheSet THEN 0 ELSE 1) + (IF commitOK THEN 0 ELSE 1)
       IN  /\ r.ok
           /\ faults + n <= MaxFaults
           /\ faults' = faults + n
           /\ read_models' = [read_models EXCEPT ![id] = Written(@, r)]
           /\ cache' = [cache EXCEPT ![id] = Cached(@, r, cacheSet)]
    /\ position' = [position EXCEPT ![p] = @ + 1]
    /\ committed' = IF commitOK THEN [committed EXCEPT ![p] = position[p] + 1]
                    ELSE committed
    /\ outcome' = SetOutcome(p, position[p] + 1, "ok")
    /\ UNCHANGED <<reporting, writeVars, busVars, calls>>

\* the reporting service is started again: the group resumes at the committed offsets
ConsumerRestart ==
    /\ position # committed
    /\ faults < MaxFaults
    /\ faults' = faults + 1
    /\ position' = committed
    /\ UNCHANGED <<reporting, writeVars, busVars, committed, outcome, read_models, cache, calls>>

\* the redis entry reaches its time to live (1 hour)
CacheExpires(id) ==
    /\ cache[id] # NoOrder
    /\ faults < MaxFaults
    /\ faults' = faults + 1
    /\ cache' = [cache EXCEPT ![id] = NoOrder]
    /\ UNCHANGED <<reporting, writeVars, busVars, position, committed, outcome, read_models, calls>>

\* GET /orders/{id}: GetOrderHandler calls the read model's GetOrder, which
\* answers from redis when the entry is there and else reads the row and
\* caches it for an hour
QueryOrder(id) ==
    /\ cache' = IF GetOrder(id).ok /\ cache[id] = NoOrder
                THEN [cache EXCEPT ![id] = read_models[id]]
                ELSE cache
    /\ UNCHANGED <<reporting, writeVars, busVars, position, committed, outcome,
                   read_models, faults, calls>>

\* ------------------------------------- the projection handler called directly
\* EventConsumer.handleEvent hands the handler one event at a time. The events
\* are those of one order as the write side builds them, each kind with its
\* own occurred_at, and one event of a kind the handler does not know.
FirstOrder == CHOOSE id \in OrderIDs : \A j \in OrderIDs : id <= j
FirstItem == CHOOSE it \in ItemChoices : \A jt \in ItemChoices : it.productID <= jt.productID
CreatedOrder == AddItems(Ok(NewOrder(FirstOrder)), <<FirstItem>>).order

AtTime(event, t) == [event EXCEPT !.occurredAt = t]

NewOrderShippedEvent(o) ==
    [type |-> "OrderShipped", aggregateID |-> o.id, occurredAt |-> Now,
     items |-> <<>>, total |-> 0, item |-> NoOrder]
NewOrderDeliveredEvent(o) ==
    [type |-> "OrderDelivered", aggregateID |-> o.id, occurredAt |-> Now,
     items |-> <<>>, total |-> 0, item |-> NoOrder]
UnknownEvent(o) ==
    [type |-> "OrderRefunded", aggregateID |-> o.id, occurredAt |-> Now,
     items |-> <<>>, total |-> 0, item |-> NoOrder]

HandledEvents ==
    { AtTime(NewOrderCreatedEvent(CreatedOrder), 1) }
    \cup { AtTime(NewOrderItemAddedEvent(CreatedOrder, it), 2) : it \in ItemChoices }
    \cup { AtTime(NewOrderItemRemovedEvent(CreatedOrder, p), 3) : p \in ProductIDs }
    \cup { AtTime(NewOrderConfirmedEvent(CreatedOrder), 4),
           AtTime(NewOrderShippedEvent(CreatedOrder), 5),
           AtTime(NewOrderDeliveredEvent(CreatedOrder), 6),
           AtTime(NewOrderCancelledEvent(CreatedOrder), 7),
           AtTime(UnknownEvent(CreatedOrder), 8) }

\* one call of Handle: it returns an error and nothing is written, or the
\* record is upserted and, when redis accepts the Set, cached
HandleCall(event, cacheSet) ==
    /\ Len(calls) < MaxCalls
    /\ LET id == event.aggregateID
           r == Handle(event)
           wrote == r.ok /\ r.order # NoOrder
       IN  /\ (wrote /\ ~cacheSet) => faults < MaxFaults
           /\ (~wrote) => cacheSet
           /\ faults' = IF wrote /\ ~cacheSet THEN faults + 1 ELSE faults
           /\ read_models' = IF r.ok THEN [read_models EXCEPT ![id] = Written(@, r)]
                             ELSE read_models
           /\ cache' = IF r.ok THEN [cache EXCEPT ![id] = Cached(@, r, cacheSet)]
                       ELSE cache
           /\ calls' = Append(calls, [event |-> event, ok |-> r.ok,
                                      rows |-> read_models, entries |-> cache])
    /\ UNCHANGED <<writeVars, busVars, position, committed, outcome>>

\* --------------------------------------- reporting process: life of the consumer
\* all of the model that is not the reporting process and its handler calls
notReporting == <<writeVars, busVars, position, committed, outcome>>
handlerVars == <<read_models, cache, faults, calls>>

\* EventConsumer.Start: consumer.Subscribe succeeds and the loop goroutine is
\* launched. The context is the context.Background() of main: never done.
Start ==
    /\ reporting.main = "serving"
    /\ reporting.loop = "none"
    /\ reporting' = [reporting EXCEPT !.loop = "select"]
    /\ UNCHANGED <<notReporting, handlerVars>>

\* the select of the loop: return (the deferred consumer.Close runs) when the
\* context is done, else go on to ReadMessage
Select ==
    /\ reporting.main # "exited"
    /\ reporting.loop = "select"
    /\ reporting' = IF reporting.done
                    THEN [reporting EXCEPT !.loop = "returned", !.conn = "closed"]
                    ELSE [reporting EXCEPT !.loop = "read"]
    /\ UNCHANGED <<notReporting, handlerVars>>

\* ReadMessage(-1) blocks until a message arrives; the handler is called with it
ReadMessage(event) ==
    /\ reporting.main # "exited"
    /\ reporting.loop = "read"
    /\ Len(calls) < MaxCalls
    /\ reporting' = [reporting EXCEPT !.loop = "handle", !.msg = event]
    /\ UNCHANGED <<notReporting, handlerVars>>

\* the handler call returns; error or not, the loop goes back to its select
HandlerReturns(cacheSet) ==
    /\ reporting.main # "exited"
    /\ reporting.loop = "handle"
    /\ HandleCall(reporting.msg, cacheSet)
    /\ reporting' = [reporting EXCEPT !.loop = "select", !.msg = NoEvent]

\* main receives SIGINT or SIGTERM and calls server.Shutdown
Interrupt ==
    /\ reporting.main = "serving"
    /\ reporting' = [reporting EXCEPT !.main = "shutdown"]
    /\ UNCHANGED <<notReporting, handlerVars>>

\* main returns: the deferred eventBus.Close closes the consumer and the
\* process exits, which ends the loop goroutine wherever it is
MainReturns ==
    /\ reporting.main = "shutdown"
    /\ reporting' = [reporting EXCEPT !.main = "exited", !.conn = "closed"]
    /\ UNCHANGED <<notReporting, handlerVars>>

Init ==
    /\ orders = [id \in OrderIDs |-> NoRow]
    /\ order_items = [id \in OrderIDs |-> <<>>]
    /\ events = {}
    /\ outbox = <<>>
    /\ cmd = Idle("none")
    /\ other = Idle("none")
    /\ pub = [pc |-> "wait", batch |-> <<>>]
    /\ topic = [p \in Partitions |-> <<>>]
    /\ delivery_failed = {}
    /\ position = [p \in Partitions |-> 0]
    /\ committed = [p \in Partitions |-> 0]
    /\ outcome = {}
    /\ read_models = [id \in OrderIDs |-> NoOrder]
    /\ cache = [id \in OrderIDs |-> NoOrder]
    /\ faults = 0
    /\ calls = <<>>
    /\ reporting = [main |-> "serving", loop |-> "none", conn |-> "open",
                    done |-> FALSE, msg |-> NoEvent]

\* the requests the write service accepts, CreateOrder with one of the item lists
Requests(lists) ==
    \/ \E items \in lists : CreateOrder(items)
    \/ \E id \in OrderIDs : ConfirmOrder(id)
    \/ \E id \in OrderIDs : CancelOrder(id)
    \/ \E id \in OrderIDs, item \in ItemChoices : AddOrderItem(id, item)
    \/ \E id \in OrderIDs, p \in ProductIDs : RemoveOrderItem(id, p)

\* the statements of a command, each of them succeeding
CommandSteps ==
    \/ SaveRow
    \/ DeleteItems
    \/ InsertItem
    \/ SaveEvents
    \/ SaveEvent

CommandNext == Requests(ItemLists) \/ CommandSteps

PublisherNext ==
    \/ ProcessBatch
    \/ \E p \in Partitions : PublishAck(p)
    \/ PublishFails
    \/ MarkProcessed
    \/ MarkFails
    \/ PublisherRestart

ConsumerNext ==
    \/ \E p \in Partitions : ConsumeUnmarshalFails(p)
    \/ \E p \in Partitions, atWrite \in BOOLEAN : ConsumeHandlerFails(p, atWrite)
    \/ \E p \in Partitions, cacheSet, commitOK \in BOOLEAN :
          ConsumeHandled(p, cacheSet, commitOK)
    \/ ConsumerRestart
    \/ \E id \in OrderIDs : CacheExpires(id)

\* the write service alone, with failing statements and crashes
\* the write service with its PUT /orders/{id} route
WriteNext ==
    \/ CommandNext
    \/ \E id \in OrderIDs, items \in ItemLists : UpdateOrder(id, items)
    \/ CommandFails
WriteSpec == Init /\ [][WriteNext]_vars

\* the write service and its publisher
OutboxNext == CommandNext \/ PublisherNext
PublisherSpec == Init /\ [][OutboxNext]_vars

\* the scheduler runs the other request: HTTP requests are served by one
\* goroutine each and interleave at every statement
Switch ==
    /\ cmd # other
    /\ cmd' = other
    /\ other' = cmd
    /\ UNCHANGED <<reporting, orders, order_items, events, outbox, busVars, readVars>>

\* the write service serving two requests at a time, every statement
\* succeeding; uuid.New gives each created order an identity of its own
ConcurrentNext ==
    \/ other.op # "CreateOrder" /\ Requests(ItemLists)
    \/ CommandSteps
    \/ Switch
ConcurrentSpec == Init /\ [][ConcurrentNext]_vars

\* the write service with requests that price items in two currencies
CurrencyNext ==
    \/ \E items \in ItemLists : CreateOrder(items)
    \/ \E id \in OrderIDs, item \in ItemChoices \cup {EuroItem} : AddOrderItem(id, item)
    \/ \E id \in OrderIDs, p \in ProductIDs : RemoveOrderItem(id, p)
    \/ CommandSteps
CurrencySpec == Init /\ [][CurrencyNext]_vars

\* the handler is given the next event of the outbox: each event once, in
\* outbox order, the read model and redis accepting every write
ProjectOutbox ==
    /\ Len(calls) < Len(outbox)
    /\ HandleCall(outbox[Len(calls) + 1].eventData, TRUE)
    /\ UNCHANGED reporting

\* the write service with all its routes, every statement succeeding, and a
\* projection that is handed the outbox as it is
ReplicaNext ==
    \/ Requests(ItemLists)
    \/ \E id \in OrderIDs, items \in ItemLists : UpdateOrder(id, items)
    \/ CommandSteps
    \/ ProjectOutbox
ReplicaSpec == Init /\ [][ReplicaNext]_vars

\* the reporting process from its start to its exit
LifeNext ==
    \/ Start
    \/ Select
    \/ \E event \in HandledEvents : ReadMessage(event)
    \/ \E cacheSet \in BOOLEAN : HandlerReturns(cacheSet)
    \/ Interrupt
    \/ MainReturns
LifeSpec == Init /\ [][LifeNext]_vars

\* the scheduling of the process: a goroutine that can run does run; whether a
\* message arrives and whether a signal is sent is up to the environment
FairLifeSpec ==
    /\ LifeSpec
    /\ WF_vars(Start)
    /\ WF_vars(Select)
    /\ WF_vars(\E cacheSet \in BOOLEAN : HandlerReturns(cacheSet))
    /\ WF_vars(MainReturns)

\* the whole pipeline: command, outbox, publisher, bus, consumer, read model.
\* The commands are issued before the publisher's first batch (its ticker
\* fires every 5 seconds); from then on the outbox is what they left. Orders
\* are created empty or with the first item.
FirstItemLists == { l \in ItemLists : \A i \in 1..Len(l) : l[i].productID = 1 }
BeforeFirstBatch == pub.pc = "wait" /\ TotalMessages = 0 /\ delivery_failed = {}
EarlyCommands == BeforeFirstBatch /\ (Requests(FirstItemLists) \/ CommandSteps)
Next == EarlyCommands \/ PublisherNext \/ ConsumerNext
Spec == Init /\ [][Next]_vars

\* the pipeline with commands arriving at any time, also after deliveries,
\* updates of the outbox, handler calls and commits have failed
InterleavedNext == Requests(FirstItemLists) \/ CommandSteps \/ PublisherNext \/ ConsumerNext
InterleavedSpec == Init /\ [][InterleavedNext]_vars

\* the projection handler and the read model alone
ProjectionNext ==
    \/ \E event \in HandledEvents, cacheSet \in BOOLEAN :
          HandleCall(event, cacheSet) /\ UNCHANGED reporting
    \/ \E id \in OrderIDs : CacheExpires(id)
ProjectionSpec == Init /\ [][ProjectionNext]_vars

\* the reporting service: the handler at work and queries by identity
QueryNext ==
    \/ ProjectionNext
    \/ \E id \in OrderIDs : QueryOrder(id)
QuerySpec == Init /\ [][QueryNext]_vars

\* the publisher under the scheduling the code gives it: the ticker of
\* ProcessEvents fires every 5 seconds for as long as the process runs, the
\* bus accepts every entry infinitely often when it is offered infinitely
\* often, and so does the outbox table the update that marks an entry
PublishAckOf(i) ==
    /\ pub.pc = "publish"
    /\ Head(pub.batch).id = i
    /\ \E p \in Partitions : PublishAck(p)
FairPublisherSpec ==
    /\ PublisherSpec
    /\ WF_vars(ProcessBatch)
    /\ \A i \in 1..MaxOutbox : SF_vars(PublishAckOf(i))
    /\ SF_vars(MarkProcessed)

\* the write service and its publisher in front of a bus that never
\* acknowledges: every Publish ends with an error
UnackedNext ==
    \/ CommandNext
    \/ ProcessBatch
    \/ PublishFails
UnackedSpec == Init /\ [][UnackedNext]_vars

\* the ticker of ProcessEvents fires every 5 seconds; the producer reports
\* every message it was given, as failed at the latest when the client's
\* message timeout has passed
FairUnackedSpec ==
    /\ UnackedSpec
    /\ WF_vars(ProcessBatch)
    /\ WF_vars(PublishFails)

\* ================================================================ properties
\* the events of one aggregate in the order they were committed to the outbox
RECURSIVE EventsOf(_, _)
EventsOf(rows, id) ==
    IF rows = <<>> THEN <<>>
    ELSE IF Head(rows).eventData.aggregateID = id
         THEN <<Head(rows).eventData>> \o EventsOf(Tail(rows), id)
         ELSE EventsOf(Tail(rows), id)
History(id) == EventsOf(outbox, id)

\* the aggregate transition an event records
ApplyEvent(o, e) ==
    CASE e.type = "OrderCreated" -> AddItems(Ok(NewOrder(e.aggregateID)), e.items).order
      [] e.type = "OrderConfirmed" -> Confirm(o).order
      [] e.type = "OrderCancelled" -> Cancel(o).order
      [] e.type = "OrderItemAdded" -> AddItem(o, e.item).order
      [] e.type = "OrderItemRemoved" -> RemoveItem(o, e.item.productID).order

RECURSIVE Replay(_, _)
Replay(o, es) ==
    IF es = <<>> THEN o ELSE Replay(ApplyEvent(o, Head(es)), Tail(es))

AggregateView(o) ==
    IF o = NoOrder THEN NoOrder
    ELSE [status |-> o.status, items |-> findOrderItems(o.items), total |-> o.total]

\* what the aggregate store holds of an order, what its outbox events add up to
StoredView(id) == AggregateView(FindByID(id).order)
OutboxView(id) == AggregateView(Replay(NoOrder, History(id)))

\* C1: whenever no command is in progress (it returned, failed at a statement
\* or died between two), the aggregate store and the outbox agree on every
\* order: the stored state is the state the order's outbox events produce, so
\* there is no stored change without its event and no event without its change.
C1_AggregateAndOutboxTogether ==
    cmd.pc = "idle" => \A id \in OrderIDs : StoredView(id) = OutboxView(id)

\* the bus has confirmed a delivery of the event of outbox entry i
Published(i) ==
    \E p \in Partitions : \E k \in 1..Len(topic[p]) :
        topic[p][k].value = outbox[i].eventData

BatchIDs(batch) == { batch[k].id : k \in 1..Len(batch) }

\* C3: every committed outbox entry is eventually published with a confirmed
\* delivery, whatever deliveries, updates and publisher runs fail on the way.
C3_EveryEntryEventuallyPublished ==
    \A i \in 1..MaxOutbox : (Len(outbox) >= i) ~> (Len(outbox) >= i /\ Published(i))

\* C3 happens: the outbox is full and each of its entries reached the bus,
\* one of them after a delivery of it had failed or had to be repeated
C3_AllPublished ==
    /\ Len(outbox) = MaxOutbox
    /\ \A i \in 1..MaxOutbox : Published(i)
    /\ TotalMessages > MaxOutbox

\* C4: an outbox entry marked processed has been acknowledged by the bus.
C4_ProcessedOnlyAfterAck ==
    \A i \in 1..Len(outbox) : outbox[i].processed => Published(i)

\* C4 happens: an entry is marked processed while another one, whose delivery
\* failed, is not
C4_SomeProcessed ==
    /\ \E i \in 1..Len(outbox) : outbox[i].processed
    /\ \E j \in delivery_failed : ~outbox[j].processed

\* C5: a failed delivery leaves the entry as it was and unprocessed, the entry
\* stays unprocessed for as long as no delivery of it succeeds, and every
\* later batch the publisher fetches holds it again.
C5_FailedDeliveryRetried ==
    [][ /\ \A i \in delivery_failed' \ delivery_failed :
              outbox'[i] = outbox[i] /\ ~outbox'[i].processed
        /\ \A i \in delivery_failed : ~outbox[i].processed
        /\ (pub.pc = "wait" /\ pub'.pc = "publish")
              => delivery_failed \subseteq BatchIDs(pub'.batch) ]_vars

\* C5 happens: the publisher is attempting, in a later batch, an entry whose
\* last delivery failed, while newer entries are in the outbox
C5_RetryInLaterBatch ==
    /\ pub.pc = "publish"
    /\ Head(pub.batch).id \in delivery_failed
    /\ Len(outbox) > Head(pub.batch).id

\* C6: the events of one aggregate reach the bus in the order they were
\* committed: no entry is published while an earlier entry of the same
\* aggregate is not.
C6_PublishedInCommitOrder ==
    \A i, j \in 1..Len(outbox) :
        (/\ i < j
         /\ outbox[i].eventData.aggregateID = outbox[j].eventData.aggregateID
         /\ Published(j)) => Published(i)

\* C8: every message carries its aggregate's identity as the partition key,
\* and any two messages of one aggregate lie in the same partition.
C8_KeyedByAggregate ==
    /\ \A p \in Partitions : \A k \in 1..Len(topic[p]) :
          topic[p][k].key = {topic[p][k].value.aggregateID}
    /\ \A p, q \in Partitions : \A k \in 1..Len(topic[p]) : \A l \in 1..Len(topic[q]) :
          topic[p][k].value.aggregateID = topic[q][l].value.aggregateID => p = q

\* the record the projection builds from events handled in order, once each
RECURSIVE Projected(_, _)
Projected(found, es) ==
    IF es = <<>> THEN found ELSE Projected(Project(found, Head(es)), Tail(es))

\* what a read-model record says of the order
ReadView(r) ==
    IF r = NoOrder THEN NoOrder
    ELSE [status |-> r.status, items |-> r.items, total |-> r.total]

\* the read model of an aggregate after the first k events of its history
PrefixView(id, k) ==
    ReadView(Projected(Err(NoOrder), SubSeq(History(id), 1, k)).order)

\* nothing is left to do: no command runs, every outbox entry is published
\* and marked, every message is consumed and below the committed offset
Quiescent ==
    /\ cmd.pc = "idle"
    /\ pub.pc = "wait"
    /\ \A i \in 1..Len(outbox) : outbox[i].processed
    /\ \A p \in Partitions :
          position[p] = Len(topic[p]) /\ committed[p] = Len(topic[p])

\* C2: every committed change reaches the read model, once in effect: when
\* the pipeline has nothing left to do, the read-model record of every
\* aggregate is what its whole event history produces.
C2_ReadModelCatchesUp ==
    Quiescent =>
        \A id \in OrderIDs : ReadView(read_models[id]) = PrefixView(id, Len(History(id)))

\* C7: the read-model record of an aggregate always reflects exactly a prefix
\* of the aggregate's event history.
C7_ReadModelIsPrefix ==
    \A id \in OrderIDs : \E k \in 0..Len(History(id)) :
        ReadView(read_models[id]) = PrefixView(id, k)

\* C9: every message below the committed offset of its partition had a
\* handler call that returned success.
C9_CommittedOnlyHandled ==
    \A p \in Partitions : \A o \in 1..committed[p] :
        [p |-> p, o |-> o, r |-> "ok"] \in outcome

\* the event of a consumed message; the handler has returned nil for the event
EventAt(x) == topic[x.p][x.o].value
Applied(e) == \E x \in outcome : x.r = "ok" /\ EventAt(x) = e

\* C10: an event whose handler call failed is handled again before any later
\* event of its aggregate is applied: no later event of the aggregate has
\* been applied while the failed one has not.
C10_FailedEventNotOvertaken ==
    \A x, y \in outcome :
        (/\ x.r = "error"
         /\ y.r = "ok"
         /\ EventAt(x).aggregateID = EventAt(y).aggregateID
         /\ EventAt(x).occurredAt < EventAt(y).occurredAt) => Applied(EventAt(x))

\* the dead-letter channel: Subscribe has none ("In production, you might want
\* to send to a dead letter queue" is a comment), so no message is ever in it
DeadLetters == {}

\* C11: a message the consumer has gone past (a later message of its partition
\* has been read) was either handled with success or moved to the dead-letter
\* channel: no failing message is lost without being dead-lettered.
C11_FailedIsDeadLettered ==
    \A p \in Partitions : \A o \in 1..Len(topic[p]) :
        o < position[p] =>
            \/ [p |-> p, o |-> o, r |-> "ok"] \in outcome
            \/ <<p, o>> \in DeadLetters

\* the only irregularity of the run is that the publisher published entries
\* again: the reporting service met no failure, every handler call returned
\* nil, and the messages lie in one partition in the order of their events
\* (an entry published again follows its first copy, before any later event)
OnlyRepublished ==
    /\ faults = 0
    /\ \A x \in outcome : x.r = "ok"
    /\ \E p \in Partitions :
          /\ \A q \in Partitions \ {p} : topic[q] = <<>>
          /\ \A k, l \in 1..Len(topic[p]) :
                k < l => topic[p][k].value.occurredAt <= topic[p][l].value.occurredAt
          /\ Len(topic[p]) > Len(outbox)

\* C12: when entries were published again because the publisher died or could
\* not mark them after the acknowledgement, the read model ends in the state
\* that one delivery of each event produces.
C12_RepublishedEndsAsOnce ==
    (Quiescent /\ OnlyRepublished) =>
        \A id \in OrderIDs : ReadView(read_models[id]) = PrefixView(id, Len(History(id)))

\* ---- properties of the projection handler called directly (ProjectionSpec)
LastCall == calls[Len(calls)]
PrevCall == calls[Len(calls) - 1]
\* the row and the redis entry of the call's aggregate before the call, and
\* the record GetOrder returned to it
RowBefore(c) == c.rows[c.event.aggregateID]
EntryBefore(c) == c.entries[c.event.aggregateID]
Seen(c) == IF EntryBefore(c) # NoOrder THEN EntryBefore(c) ELSE RowBefore(c)
RowNow(c) == read_models[c.event.aggregateID]

CreatedOrStatus ==
    {"OrderCreated", "OrderConfirmed", "OrderShipped", "OrderDelivered", "OrderCancelled"}

\* the last two calls were given the identical event and the first returned nil
SameEventTwice ==
    /\ Len(calls) >= 2
    /\ LastCall.event = PrevCall.event
    /\ PrevCall.ok

\* C13: for a Created or status event, a second call in a row with the
\* identical event returns nil and leaves the whole read-model record
\* (status, items, total, timestamps) as the first call left it.
C13_SecondCallChangesNothing ==
    (SameEventTwice /\ LastCall.event.type \in CreatedOrStatus) =>
        LastCall.ok /\ RowNow(LastCall) = RowBefore(LastCall)

\* C13 happens: a status event was handled twice in a row and its first call
\* changed the record
C13_StatusHandledTwice ==
    /\ SameEventTwice
    /\ LastCall.event.type \in CreatedOrStatus \ {"OrderCreated"}
    /\ RowBefore(PrevCall) # RowBefore(LastCall)

\* the event of the last call had been applied by an earlier call, and another
\* event was applied between the two
RedeliveredLater ==
    /\ Len(calls) >= 3
    /\ \E k \in 1..(Len(calls) - 2) :
          /\ calls[k].event = LastCall.event
          /\ calls[k].ok
          /\ \E j \in (k + 1)..(Len(calls) - 1) :
                calls[j].ok /\ calls[j].event # LastCall.event

\* C14: redelivering a Created or status event that was already applied, after
\* later events of the aggregate were applied, leaves the record as it was.
C14_LateRedeliveryChangesNothing ==
    (RedeliveredLater /\ LastCall.event.type \in CreatedOrStatus) =>
        LastCall.ok /\ RowNow(LastCall) = RowBefore(LastCall)

\* how many times an item occurs in a list
CountOf(items, item) == Cardinality({ i \in 1..Len(items) : items[i] = item })
Subtotal(item) == item.price * item.quantity

\* the last two calls were given the identical ItemAdded event and both
\* returned nil
ItemAddedTwice ==
    /\ SameEventTwice
    /\ LastCall.event.type = "OrderItemAdded"
    /\ LastCall.ok

\* a call read the record as the table held it (the redis entry was absent or
\* equal to the row)
ReadCurrent(c) == Seen(c) = RowBefore(c)

Requires(type) ==
    CASE type = "OrderConfirmed" -> {"draft"}
      [] type = "OrderShipped" -> {"confirmed"}
      [] type = "OrderDelivered" -> {"shipped"}
      [] type = "OrderCancelled" -> {"draft", "confirmed"}
      [] type = "OrderItemAdded" -> {"draft"}
      [] type = "OrderItemRemoved" -> {"draft"}
      [] OTHER -> {}

\* the last call was handed an event ahead of an earlier-published one: the
\* record is absent or in a status the event cannot follow
OutOfOrder ==
    /\ Len(calls) >= 1
    /\ LastCall.event.type \in EventTypes \ {"OrderCreated"}
    /\ \/ RowBefore(LastCall) = NoOrder
       \/ RowBefore(LastCall).status \notin Requires(LastCall.event.type)

\* C16: an event handed to the handler out of publication order is answered
\* with an error and the read model is left unchanged.
C16_OutOfOrderRejected ==
    OutOfOrder => ~LastCall.ok /\ read_models = LastCall.rows

\* the last call was handed an ItemRemoved event for a product that the item
\* list of the record does not hold
RemovedAbsent ==
    /\ Len(calls) >= 1
    /\ LastCall.event.type = "OrderItemRemoved"
    /\ RowBefore(LastCall) # NoOrder
    /\ FirstIndex(RowBefore(LastCall).items, LastCall.event.item.productID) = 0

\* C17: an ItemRemoved event for a product that is not in the item list of the
\* record returns nil and leaves the item list and the total unchanged.
C17_RemoveAbsentChangesNothing ==
    RemovedAbsent =>
        /\ LastCall.ok
        /\ RowNow(LastCall).items = RowBefore(LastCall).items
        /\ RowNow(LastCall).total = RowBefore(LastCall).total

\* the last call was handed an event of a kind outside the enumeration
UnknownHandled ==
    /\ Len(calls) >= 1
    /\ LastCall.event.type \notin EventTypes

\* a step that is a call of Handle on an event of an unknown kind
UnknownCall ==
    /\ Len(calls') = Len(calls) + 1
    /\ calls'[Len(calls')].event.type \notin EventTypes

\* C18: Handle on an event of an unknown kind returns nil and leaves every
\* read-model row and every redis entry as it was.
C18_UnknownKindSkipped ==
    [][UnknownCall => (calls'[Len(calls')].ok /\ UNCHANGED <<read_models, cache>>)]_vars

\* C18 happens: an event of an unknown kind was handled for an aggregate whose
\* record exists
C18_UnknownKindHandled ==
    /\ UnknownHandled
    /\ RowBefore(LastCall) # NoOrder
    /\ EntryBefore(LastCall) # NoOrder

\* the four status requests on an order, each with the status it asks for
StatusRequests(o) ==
    { [to |-> "confirmed", r |-> Confirm(o)],
      [to |-> "cancelled", r |-> Cancel(o)],
      [to |-> "shipped", r |-> Ship(o)],
      [to |-> "delivered", r |-> Deliver(o)] }

\* C19: the status of an order changes only along the edges of the transition
\* table: on every stored order a status request that is not an edge of the
\* table returns an error and leaves the order as it is, and a ConfirmOrder or
\* CancelOrder command that goes on to save the order and its event moves the
\* stored status along an edge.
C19_OnlyTableTransitions ==
    /\ \A id \in OrderIDs :
          FindByID(id).ok =>
             \A q \in StatusRequests(FindByID(id).order) :
                ~CanTransitionTo(FindByID(id).order.status, q.to) =>
                    ~q.r.ok /\ q.r.order = FindByID(id).order
    /\ (cmd.pc = "save_row" /\ cmd.op \in {"ConfirmOrder", "CancelOrder"}) =>
          CanTransitionTo(orders[cmd.order.id].status, cmd.order.status)

\* a command has loaded an order and is about to write it back with an item
\* list other than the stored one
WritesOtherItems ==
    /\ cmd.pc = "save_row"
    /\ cmd.op # "CreateOrder"
    /\ cmd.order.items # FindByID(cmd.order.id).order.items

\* C20: the stored item list of an order is only ever replaced by another
\* list while the stored status of the order is draft.
C20_ItemsChangeOnlyInDraft ==
    WritesOtherItems => orders[cmd.order.id].status = "draft"

\* C21: whenever no command is in the middle of a save (the last one returned
\* or was interrupted), the stored total of every order is the sum of
\* price x quantity over its stored items.
C21_StoredTotalIsSumOfItems ==
    cmd.pc = "idle" =>
        \A id \in OrderIDs :
            orders[id] # NoRow => orders[id].total = SumItems(order_items[id])

\* the currencies of the prices of an item list
Currencies(items) == { items[i].currency : i \in 1..Len(items) }

\* C22: no order holds items of two currencies: neither the stored item list
\* of an order nor the order a command has accepted and is saving.
C22_OneCurrencyPerOrder ==
    /\ \A id \in OrderIDs : Cardinality(Currencies(order_items[id])) <= 1
    /\ cmd.pc # "idle" => Cardinality(Currencies(cmd.order.items)) <= 1

\* the orders in which a sequence of events can be arranged
Perms(es) ==
    { [i \in 1..Len(es) |-> es[f[i]]] :
        f \in { g \in [1..Len(es) -> 1..Len(es)] :
                  \A i, j \in 1..Len(es) : g[i] = g[j] => i = j } }

\* the command an event records, executed on the aggregate
Applies(o, e) ==
    CASE e.type = "OrderCreated" ->
            IF o = NoOrder THEN AddItems(Ok(NewOrder(e.aggregateID)), e.items) ELSE Err(o)
      [] o = NoOrder -> Err(o)
      [] e.type = "OrderConfirmed" -> Confirm(o)
      [] e.type = "OrderCancelled" -> Cancel(o)
      [] e.type = "OrderItemAdded" -> AddItem(o, e.item)
      [] e.type = "OrderItemRemoved" -> RemoveItem(o, e.item.productID)

\* the commands of a sequence of events executed one after the other
RECURSIVE Serial(_, _)
Serial(r, es) ==
    IF es = <<>> \/ ~r.ok THEN r ELSE Serial(Applies(r.order, Head(es)), Tail(es))

\* the stored order is what the commands behind its outbox events produce when
\* they run one after the other, each succeeding, in some order
Serializable(id) ==
    \E es \in Perms(History(id)) :
        /\ Serial(Ok(NoOrder), es).ok
        /\ AggregateView(Serial(Ok(NoOrder), es).order) = StoredView(id)

\* C23: when two requests were served at the same time and both have
\* returned, every stored order equals the result of the successful commands
\* run one after the other in some order, and the outbox holds exactly their
\* events: no update is lost.
C23_NoLostUpdate ==
    (cmd.pc = "idle" /\ other.pc = "idle") => \A id \in OrderIDs : Serializable(id)

\* the statuses from which the request of a command is legal: the edges of the
\* transition table, and draft for every change of the items
LegalIn(op, status) ==
    CASE op = "ConfirmOrder" -> CanTransitionTo(status, "confirmed")
      [] op = "CancelOrder" -> CanTransitionTo(status, "cancelled")
      [] op \in {"AddOrderItem", "RemoveOrderItem", "UpdateOrder"} -> status = "draft"
      [] OTHER -> TRUE

\* C24: a command that goes on to write (it did not return an error after
\* loading the order) found the order stored and in a status from which its
\* request is legal; every other command writes nothing.
C24_IllegalCommandWritesNothing ==
    (cmd.pc = "save_row" /\ cmd.op # "CreateOrder") =>
        /\ orders[cmd.order.id] # NoRow
        /\ LegalIn(cmd.op, orders[cmd.order.id].status)

\* a view with its items in product order, as FindByID returns them
InProductOrder(v) ==
    IF v = NoOrder THEN NoOrder ELSE [v EXCEPT !.items = findOrderItems(@)]

\* every command has returned and every outbox event was projected once
AllProjected == cmd.pc = "idle" /\ Len(calls) = Len(outbox)

\* C25: once every event of the outbox has been projected exactly once in
\* outbox order, the read-model record of every order has the status, the
\* items and the total of the stored aggregate.
C25_ReadModelEqualsAggregate ==
    AllProjected =>
        \A id \in OrderIDs :
            InProductOrder(ReadView(read_models[id])) = StoredView(id)

\* C26: the consumer is never closed while a handler call is in flight.
C26_NotClosedDuringHandler ==
    reporting.conn = "closed" => reporting.loop # "handle"

\* C27: once shutdown is signalled the loop eventually observes it, stops
\* pulling messages and returns (Stopping, then Stopped), also when no
\* message arrives any more.
C27_SignalledEventuallyStopped ==
    (reporting.main # "serving") ~> (reporting.loop = "returned")

Immutable(row) ==
    [id |-> row.id, eventType |-> row.eventType, eventData |-> row.eventData,
     createdAt |-> row.createdAt]

\* C29: outbox entries are append-only: a step removes no entry and changes
\* no identity, kind, payload or creation time, and a processed flag that is
\* true stays true.
C29_OutboxAppendOnly ==
    [][/\ Len(outbox') >= Len(outbox)
       /\ \A i \in 1..Len(outbox) :
             /\ Immutable(outbox'[i]) = Immutable(outbox[i])
             /\ outbox[i].processed => outbox'[i].processed]_vars

\* C29 happens: entries were appended after an older one had been marked
\* processed
C29_MarkedAndAppended ==
    /\ Len(outbox) = MaxOutbox
    /\ outbox[1].processed
    /\ ~outbox[MaxOutbox].processed

\* C30: a step that is not a call of the projection handler writes no
\* read-model row and no redis entry (an entry may only expire).
C30_OnlyHandlerWrites ==
    [][calls' = calls =>
          /\ read_models' = read_models
          /\ \A id \in OrderIDs : cache'[id] \in {cache[id], NoOrder}]_vars

\* EventStore.GetEvents: the rows of the aggregate, ORDER BY version ASC
GetEvents(id) ==
    LET rows == { row \in events : row.aggregateID = id }
        n == Cardinality(rows)
    IN  CHOOSE s \in [1..n -> rows] :
            \A i, j \in 1..n : i < j => s[i].version < s[j].version

\* the kinds of a sequence of events or event rows
TypesOf(s) == [i \in 1..Len(s) |-> s[i].type]

\* C31: whenever no command is running, the event store holds for every
\* aggregate the events its commands produced, in order, with the versions
\* 1, 2, 3, ... and nothing else.
C31_EventStoreHoldsHistory ==
    cmd.pc = "idle" =>
        \A id \in OrderIDs :
            /\ TypesOf(GetEvents(id)) = TypesOf(History(id))
            /\ \A i \in 1..Len(GetEvents(id)) : GetEvents(id)[i].version = i

\* what the synchronous path of a command reads and writes: the aggregate
\* tables, the event store and the outbox entries without their processed flag
SyncView ==
    <<orders, order_items, events, [i \in 1..Len(outbox) |-> Immutable(outbox[i])]>>

\* the answer to a request as validation, the domain rules and the aggregate
\* store alone give it: an error returned at once, or the order to be saved
Decided(op, id, arg) ==
    IF ~FindByID(id).ok THEN Idle("not_found")
    ELSE IF ~Transition(op, FindByID(id).order, arg).ok THEN Idle("domain_error")
    ELSE Running(op, Transition(op, FindByID(id).order, arg).order, arg)

\* C32: what a command returns depends only on validation, the domain rules
\* and the storage of the synchronous path. A step of the publisher, the bus,
\* the consumer or the projection, failing or not, changes nothing a command
\* reads; each request is answered as the aggregate store alone decides; and
\* an accepted command whose statements succeed returns nil.
C32_ResultIndependentOfPipeline ==
    [][/\ cmd' = cmd => SyncView' = SyncView
       /\ \A id \in OrderIDs :
             /\ ConfirmOrder(id) => cmd' = Decided("ConfirmOrder", id, NoOrder)
             /\ CancelOrder(id) => cmd' = Decided("CancelOrder", id, NoOrder)
             /\ \A item \in ItemChoices :
                   AddOrderItem(id, item) => cmd' = Decided("AddOrderItem", id, item)
             /\ \A q \in ProductIDs :
                   RemoveOrderItem(id, q) =>
                       cmd' = Decided("RemoveOrderItem", id, [productID |-> q])
       /\ \A items \in FirstItemLists :
             CreateOrder(items) =>
                 (cmd'.pc = "idle" <=> ~Validate(items))
       /\ (cmd.pc = "outbox" /\ cmd' # cmd) => cmd' = Idle("ok")]_vars

\* C32 happens: a command is accepted and another has returned nil after a
\* delivery and a handler call or commit had failed
C32_CommandAfterFailures ==
    /\ cmd.pc = "save_row"
    /\ cmd.op # "CreateOrder"
    /\ delivery_failed # {}
    /\ faults > 0

\* the handler was never called for the message at an offset the consumer has
\* passed: its payload could not be deserialized
NotDeserialized(q, o) ==
    /\ o \in 1..position[q]
    /\ \A x \in outcome : ~(x.p = q /\ x.o = o)

\* C33: when the payload of a consumed message cannot be deserialized, the
\* handler is not called for it, no read-model row and no redis entry changes,
\* and the consumer moves on to the next message of the partition.
C33_UndeserializableSkipped ==
    [][\A q \in Partitions :
          ConsumeUnmarshalFails(q) =>
              /\ outcome' = outcome
              /\ read_models' = read_models
              /\ cache' = cache
              /\ position'[q] = position[q] + 1]_vars

\* C33 happens: a message could not be deserialized and a later message of
\* the same partition was handled
C33_LaterMessageHandled ==
    \E q \in Partitions : \E o \in 1..position[q] :
        /\ NotDeserialized(q, o)
        /\ \E x \in outcome : x.p = q /\ x.o > o /\ x.r = "ok"

\* C34: the record GetOrder returns inside a handler is the record last
\* written for the aggregate (the order_read_models row as CreateOrder /
\* UpdateOrder left it), whatever queries, cache expiries and failed cache
\* writes came between.
C34_HandlerReadsLastWritten ==
    \A k \in 1..Len(calls) :
        (calls[k].event.type \in EventTypes \ {"OrderCreated"}
            /\ RowBefore(calls[k]) # NoOrder)
        => Seen(calls[k]) = RowBefore(calls[k])

\* C35: whenever no command is in progress, every stored order whose status is
\* confirmed, shipped or delivered has at least one stored item.
C35_ConfirmedOrderHasItems ==
    cmd.pc = "idle" =>
        \A id \in OrderIDs :
            (orders[id] # NoRow /\ orders[id].status \in {"confirmed", "shipped", "delivered"})
            => Len(order_items[id]) > 0

\* ------------------------------------------- entries that can never be published
\* An entry whose event cannot be parsed, or whose message the bus refuses
\* every time (a record larger than the broker takes), fails at each attempt:
\* here an entry that has failed once fails for ever, the others are
\* acknowledged and marked.
PublishAckHealthy(p) ==
    /\ pub.pc = "publish"
    /\ Head(pub.batch).id \notin delivery_failed
    /\ PublishAck(p)

PoisonNext ==
    \/ CommandNext
    \/ ProcessBatch
    \/ \E p \in Partitions : PublishAckHealthy(p)
    \/ PublishFails
    \/ MarkProcessed
PoisonSpec == Init /\ [][PoisonNext]_vars

HealthyAckOf(i) ==
    /\ pub.pc = "publish"
    /\ Head(pub.batch).id = i
    /\ \E p \in Partitions : PublishAckHealthy(p)

\* the ticker fires every 5 seconds, every attempt ends (C28), an entry that
\* is not a failing one is acknowledged when it is offered, and the update
\* that marks it succeeds
FairPoisonSpec ==
    /\ PoisonSpec
    /\ WF_vars(ProcessBatch)
    /\ WF_vars(PublishFails)
    /\ \A i \in 1..MaxOutbox : SF_vars(HealthyAckOf(i))
    /\ WF_vars(MarkProcessed)

\* C36: failing entries never keep another entry from being published: every
\* outbox entry that is not a failing one is eventually marked processed (or
\* turns out to be a failing one itself), however many older entries fail.
C36_FailingEntriesBlockNoOther ==
    \A i \in 1..MaxOutbox :
        (i <= Len(outbox) /\ i \notin delivery_failed)
            ~> (i \in delivery_failed \/ i \in ProcessedIDs)

\* the ids of the entries of a list of outbox rows
IDsOf(rows) == { rows[k].id : k \in 1..Len(rows) }

\* C37: an entry that is marked processed is not returned by
\* GetUnprocessedEvents and is not in the batch the publisher is working on,
\* so it is not published again: whatever the publisher publishes is an entry
\* no MarkAsProcessed has succeeded for.
C37_ProcessedNeverFetchedAgain ==
    /\ IDsOf(GetUnprocessedEvents) \cap ProcessedIDs = {}
    /\ IDsOf(pub.batch) \cap ProcessedIDs = {}

\* C37 happens: an entry was published, its MarkAsProcessed failed, it was
\* published again and marked, and the publisher is working on a later batch
C37_RepublishedThenMarked ==
    /\ ProcessedIDs # {}
    /\ Unmarked >= 1
    /\ TotalMessages >= 2
    /\ pub.pc = "publish"
    /\ delivery_failed = {}

\* ------------------------------------------------ the loop of ProcessEvents
\* a variant of the tick that returns the error of processBatch to the caller
\* of ProcessEvents in place of logging it
FetchFailsStops ==
    /\ pub.pc = "wait"
    /\ faults < MaxFaults
    /\ faults' = faults + 1
    /\ pub' = [pc |-> "failed", batch |-> <<>>]
    /\ UNCHANGED <<reporting, writeVars, topic, delivery_failed, position,
                   committed, outcome, read_models, cache, calls>>

\* a tick whose GetUnprocessedEvents returns an error: processBatch returns
\* it, ProcessEvents logs it and waits for the next tick
FetchFails ==
    /\ pub.pc = "wait"
    /\ faults < MaxFaults
    /\ faults' = faults + 1
    /\ UNCHANGED <<reporting, writeVars, busVars, position, committed, outcome,
                   read_models, cache, calls>>

\* the select of ProcessEvents takes the case <-ctx.Done(): the loop returns
\* ctx.Err(). The context is the caller's; the main of the write service
\* passes context.Background(), which is never done.
ContextDone ==
    /\ pub.pc = "wait"
    /\ pub' = [pc |-> "cancelled", batch |-> <<>>]
    /\ UNCHANGED <<reporting, writeVars, topic, delivery_failed, readVars>>

LoopNext ==
    \/ CommandNext
    \/ ProcessBatch
    \/ FetchFails
    \/ \E p \in Partitions : PublishAck(p)
    \/ PublishFails
    \/ MarkProcessed
    \/ MarkFails
    \/ ContextDone
LoopSpec == Init /\ [][LoopNext]_vars

\* C38: the loop of ProcessEvents ends by the case of the cancelled context
\* and by nothing else: a failed fetch, a failed delivery and a failed
\* MarkAsProcessed leave the publisher in the loop, at the next entry of the
\* batch or waiting for the next tick.
C38_LoopEndsOnlyOnCancel ==
    [][/\ pub'.pc \in {"wait", "publish", "mark", "cancelled"}
       /\ (pub'.pc = "cancelled" /\ pub.pc # "cancelled") => ContextDone
       /\ (FetchFails \/ PublishFails \/ MarkFails) => pub'.pc \in {"wait", "publish"}]_vars

\* C38 happens: a fetch failed, a delivery failed and a MarkAsProcessed
\* failed, and the publisher is working on a batch again
C38_BatchAfterErrors ==
    /\ faults > 0
    /\ delivery_failed # {}
    /\ Unmarked >= 1
    /\ pub.pc = "publish"

\* ------------------------------------------- EventStore.SaveEvents on its own
\* Two callers (cmd and other) call SaveEvents(aggregateID, events,
\* expectedVersion) with lists of up to MaxEvents events; each call is one
\* database transaction. An event is written here by its type.
MaxEvents == 2
MaxExpected == 1
EventLists ==
    UNION { [1..n -> {"OrderCreated", "OrderConfirmed"}] : n \in 1..MaxEvents }

\* a call in progress: k of its inserts have been executed in its transaction
Saving(id, list, expectedVersion) ==
    [pc |-> "insert", op |-> "SaveEvents", order |-> NoOrder,
     arg |-> [aggregateID |-> id, events |-> list, expectedVersion |-> expectedVersion],
     k |-> 0, result |-> "none"]

\* the row of the i-th event of the call: version := expectedVersion + i + 1
\* for the 0-based index of the loop
RowOf(w, i) ==
    [aggregateID |-> w.arg.aggregateID, type |-> w.arg.events[i],
     version |-> w.arg.expectedVersion + i]

\* the rows the transaction of a call has inserted and not committed
Pending(w) ==
    IF w.pc = "insert" THEN { RowOf(w, i) : i \in 1..w.k } ELSE {}

\* UNIQUE(aggregate_id, version)
Clashes(row, rows) ==
    \E r \in rows : r.aggregateID = row.aggregateID /\ r.version = row.version

\* a variant without the transaction: the rows inserted before the error stay
RollbackKeeps(w) == Pending(w)

\* defer tx.Rollback(): what a call that returns an error leaves of its rows
Rollback(w) == {}

\* es.db.BeginTx
SaveEventsBegin(w, wn) ==
    /\ w.pc = "idle"
    /\ \E id \in OrderIDs, list \in EventLists, expectedVersion \in 0..MaxExpected :
          wn = Saving(id, list, expectedVersion)
    /\ UNCHANGED events

\* tx.ExecContext of the next INSERT. A version a committed row holds is a
\* unique violation: the call returns the error. A version an open
\* transaction holds makes the statement wait for that transaction to end.
SaveEventsInsert(w, wn, peer) ==
    /\ w.pc = "insert"
    /\ w.k < Len(w.arg.events)
    /\ ~Clashes(RowOf(w, w.k + 1), Pending(peer))
    /\ IF Clashes(RowOf(w, w.k + 1), events)
       THEN /\ wn = Idle("version_conflict")
            /\ events' = events \cup Rollback(w)
       ELSE /\ wn = [w EXCEPT !.k = @ + 1]
            /\ UNCHANGED events

\* json.Marshal, an INSERT or the Commit fails for another reason
SaveEventsFails(w, wn) ==
    /\ w.pc = "insert"
    /\ wn = Idle("storage_error")
    /\ events' = events \cup Rollback(w)

\* tx.Commit returns nil
SaveEventsCommit(w, wn) ==
    /\ w.pc = "insert"
    /\ w.k = Len(w.arg.events)
    /\ events' = events \cup Pending(w)
    /\ wn = Idle("ok")

StoreRest == <<reporting, orders, order_items, outbox, busVars, readVars>>
StoreNext ==
    \/ SaveEventsBegin(cmd, cmd') /\ UNCHANGED <<other, StoreRest>>
    \/ SaveEventsInsert(cmd, cmd', other) /\ UNCHANGED <<other, StoreRest>>
    \/ SaveEventsFails(cmd, cmd') /\ UNCHANGED <<other, StoreRest>>
    \/ SaveEventsCommit(cmd, cmd') /\ UNCHANGED <<other, StoreRest>>
    \/ SaveEventsBegin(other, other') /\ UNCHANGED <<cmd, StoreRest>>
    \/ SaveEventsInsert(other, other', cmd) /\ UNCHANGED <<cmd, StoreRest>>
    \/ SaveEventsFails(other, other') /\ UNCHANGED <<cmd, StoreRest>>
    \/ SaveEventsCommit(other, other') /\ UNCHANGED <<cmd, StoreRest>>
StoreSpec == Init /\ [][StoreNext]_vars

\* what a call ought to store: its n events at the versions
\* expectedVersion + 1 .. expectedVersion + n, in the order of the list
RowsToStore(w) ==
    { [aggregateID |-> w.arg.aggregateID, type |-> w.arg.events[i],
       version |-> w.arg.expectedVersion + i] : i \in 1..Len(w.arg.events) }

\* the step of one call: it stores nothing while it runs and when it returns
\* an error, it returns nil only if none of its versions was taken, and then
\* the table gains exactly its n rows
AllOrNothing(w, wn) ==
    w.pc = "insert" =>
        IF wn.pc = "idle" /\ wn.result = "ok"
        THEN /\ \A row \in RowsToStore(w) : ~Clashes(row, events)
             /\ events' = events \cup RowsToStore(w)
        ELSE events' = events

\* C39: SaveEvents stores all the events of the call at the versions
\* expectedVersion + 1 .. expectedVersion + n in list order, or none of them
\* and returns an error; a version that exists already for the aggregate makes
\* it store none.
C39_SaveEventsAllOrNothing ==
    [][/\ cmd' # cmd => AllOrNothing(cmd, cmd')
       /\ other' # other => AllOrNothing(other, other')]_vars

\* C39 happens: two calls used the same expected version with two events
\* each; one stored both, the other returned the unique violation and stored
\* nothing
C39_SecondWriterRejected ==
    /\ cmd.result = "ok"
    /\ other.result = "version_conflict"
    /\ Cardinality(events) = 2

====
